---- MODULE Spec2Model ----
(***************************************************************************)
(* Model of 01_materials/labs/lab_3.ipynb: the MovieLens recommender lab.  *)
(*                                                                         *)
(* The notebook is a sequence of cells working on global variables.  The   *)
(* model keeps those globals as its state and has one action per cell (or  *)
(* per function the cells define and call):                                *)
(*    merge -> popularity -> merge popularity -> set_index -> split ->     *)
(*    RegressionModel(...) -> fit -> get_weights -> queries                *)
(*    -> RegressionModel(...) -> fit   (the notebook's last two cells)     *)
(* A data-frame is a sequence of rows (records); only the columns that the *)
(* code computes with are kept (item_id, user_id, popularity; the title of *)
(* an item is represented by the item_id it belongs to).                   *)
(* Real numbers are modelled by integers: embedding vectors have integer   *)
(* components, and cosine similarities are compared exactly by             *)
(* cross-multiplication (floating-point rounding is not modelled).         *)
(***************************************************************************)
EXTENDS Integers, Sequences, FiniteSets, TLC

VARIABLES
    pc,               \* the next cell to execute
    raw_ratings,      \* lab_3.ipynb:61   rows of u.data
    items,            \* lab_3.ipynb:84   rows of u.item, later with popularity
    all_ratings,      \* lab_3.ipynb:121  the joined ratings
    popularity,       \* lab_3.ipynb:164  rows (item_id, popularity)
    indexed_items,    \* lab_3.ipynb:213  items keyed by item_id
    ratings_train,    \* lab_3.ipynb:264  index labels of the training rows
    ratings_test,     \* lab_3.ipynb:264  index labels of the test rows
    np_random,        \* numpy's global random state
    model,            \* lab_3.ipynb:341  the RegressionModel (its two tables)
    iterations,       \* lab_3.ipynb:342  model.optimizer.iterations: updates applied
    history,          \* lab_3.ipynb:363  the History object fit returned
    item_embeddings,  \* lab_3.ipynb:463  weights[1], the snapshot of the item table
    result            \* what the last executed query cell returned or raised

vars == <<pc, raw_ratings, items, all_ratings, popularity, indexed_items,
          ratings_train, ratings_test, np_random, model, iterations, history,
          item_embeddings, result>>

(***************************************************************************)
(* Bounds of the model.                                                    *)
(***************************************************************************)
MaxUser == 2        \* user ids of the input are 1..MaxUser
MaxItem == 4        \* item ids of the recommendation specification are 1..MaxItem
PipeItems == 2      \* item ids of the pipeline's input files are 1..PipeItems
MaxRatings == 3     \* at most this many rating rows
MaxTopN == 2        \* top_n arguments are 0..MaxTopN
EmbDim == 1         \* embedding_size of the pipeline's model (64 in the lab)
SimDim == 2         \* length of the vectors of the similarity specification
SimRows == 3        \* rows of the embedding table of the similarity specification

UserIds == 1..MaxUser
ItemIds == 1..MaxItem

None == "None"

\* the value of model before the cell that constructs it has run
NoModel == [user_embedding |-> <<>>, item_embedding |-> <<>>]

(***************************************************************************)
(* Generic helpers.                                                        *)
(***************************************************************************)
Range(s) == {s[k] : k \in DOMAIN s}

Max(S) == CHOOSE x \in S : \A y \in S : y <= x

Min(S) == CHOOSE x \in S : \A y \in S : x <= y

RECURSIVE SortedSeq(_)
\* the elements of a finite set of integers in ascending order
SortedSeq(S) ==
    IF S = {} THEN <<>> ELSE <<Min(S)>> \o SortedSeq(S \ {Min(S)})

RECURSIVE SeqsUpTo(_, _)
\* all sequences over S of length at most n
SeqsUpTo(S, n) ==
    IF n = 0 THEN {<<>>}
    ELSE LET shorter == SeqsUpTo(S, n - 1)
         IN  shorter \cup {Append(s, x) : s \in {t \in shorter : Len(t) = n - 1}, x \in S}

\* the values of one column of a table
Column(table, name) == {table[k][name] : k \in DOMAIN table}

(***************************************************************************)
(* Enrichment and join (pandas).                                           *)
(***************************************************************************)
RECURSIVE MergeOn(_, _, _)
\* pd.merge(left, right) with item_id as the only common column: an inner
\* join that keeps the order of the left keys and, within one key, the order
\* of the right rows.  A joined row has the columns of both rows.
MergeOn(left, right, k) ==
    IF k > Len(left) THEN <<>>
    ELSE LET l == left[k]
             matches == SelectSeq(right, LAMBDA r : r.item_id = l.item_id)
         IN  [j \in 1..Len(matches) |-> l @@ matches[j]]
               \o MergeOn(left, right, k + 1)

\* the join that keeps every rating row (how='right')
MergeItemsRatingsRight(its, raw) ==
    [k \in DOMAIN raw |-> [item_id |-> raw[k].item_id, user_id |-> raw[k].user_id]]

\* lab_3.ipynb:121   all_ratings = pd.merge(items, raw_ratings)
MergeItemsRatings(its, raw) ==
    MergeOn(its, raw, 1)

\* a count per item_id of the catalogue, zero for an item nobody rated
GroupBySizeFilled(ratings) ==
    [j \in 1..PipeItems |->
        [item_id |-> j,
         popularity |-> Cardinality({k \in DOMAIN ratings : ratings[k].item_id = j})]]

\* lab_3.ipynb:164   all_ratings.groupby('item_id').size().reset_index(name='popularity')
GroupBySize(ratings) ==
    LET keys == SortedSeq({ratings[k].item_id : k \in DOMAIN ratings})
    IN  [j \in 1..Len(keys) |->
            [item_id |-> keys[j],
             popularity |-> Cardinality({k \in DOMAIN ratings : ratings[k].item_id = keys[j]})]]

\* lab_3.ipynb:165   items = pd.merge(popularity, items)
MergePopularityItems(pop, its) ==
    MergeOn(pop, its, 1)

\* lab_3.ipynb:201   all_ratings = pd.merge(popularity, all_ratings)
MergePopularityRatings(pop, ratings) ==
    MergeOn(pop, ratings, 1)

\* lab_3.ipynb:213   indexed_items = items.set_index('item_id')
SetIndex(its) ==
    [i \in {its[k].item_id : k \in DOMAIN its} |->
        LET row == its[CHOOSE k \in DOMAIN its : its[k].item_id = i]
        IN  [title |-> i, popularity |-> row.popularity]]

(***************************************************************************)
(* Split (sklearn.model_selection.train_test_split).                       *)
(*                                                                         *)
(* The library's generator (a Mersenne Twister) is represented by a small  *)
(* linear congruential generator: what the model keeps of it is that a     *)
(* RandomState built from a seed is a deterministic function of the seed,  *)
(* and that numpy's global state advances with every draw.                 *)
(***************************************************************************)
RandomState(seed) == seed % 65537

NextRandom(s) == (75 * s + 74) % 65537

Swap(p, a, b) == [p EXCEPT ![a] = p[b], ![b] = p[a]]

RECURSIVE Shuffle(_, _, _)
\* rng.permutation: Fisher-Yates from the last position down; returns the
\* permuted sequence and the state of the generator afterwards
Shuffle(p, k, s) ==
    IF k < 2 THEN [perm |-> p, state |-> s]
    ELSE LET s1 == NextRandom(s)
         IN  Shuffle(Swap(p, k, (s1 % k) + 1), k - 1, s1)

\* test_size=0.2: n_test = ceil(0.2 * n)
NumTest(n) == (2 * n + 9) \div 10

\* the global-state variant (random_state=None), the bug a dropped seed would be
TrainTestSplitUnseeded(n, seed, global) ==
    LET sh == Shuffle([k \in 1..n |-> k], n, global)
    IN  [test   |-> SubSeq(sh.perm, 1, NumTest(n)),
         train  |-> SubSeq(sh.perm, NumTest(n) + 1, n),
         global |-> sh.state]

\* lab_3.ipynb:264   train_test_split(all_ratings, test_size=0.2, random_state=0)
\* on n rows, labelled 1..n: the index labels of the test and of the training
\* rows, and numpy's global state afterwards (untouched: the seed is given)
TrainTestSplit(n, seed, global) ==
    LET sh == Shuffle([k \in 1..n |-> k], n, RandomState(seed))
    IN  [test   |-> SubSeq(sh.perm, 1, NumTest(n)),
         train  |-> SubSeq(sh.perm, NumTest(n) + 1, n),
         global |-> global]

\* train_test_split raises ValueError when the training set would be empty
SplitFails(n) == n - NumTest(n) = 0

(***************************************************************************)
(* The embedding regression model (Keras).                                 *)
(***************************************************************************)
Vals == {0, 1}                       \* components of the pipeline's vectors
Vec == [1..EmbDim -> Vals]

Tables(rows, V) == [0..(rows - 1) -> V]

RECURSIVE DotFrom(_, _, _)
DotFrom(a, b, k) == IF k > Len(a) THEN 0 ELSE a[k] * b[k] + DotFrom(a, b, k + 1)

\* lab_3.ipynb:328   Dot(axes=1)
Dot(a, b) == DotFrom(a, b, 1)

\* the constructor with tables one row short (input_dim = max id)
RegressionModelShort(max_user_id, max_item_id, V) ==
    {[user_embedding |-> u, item_embedding |-> i] :
        u \in Tables(max_user_id, V), i \in Tables(max_item_id, V)}

\* lab_3.ipynb:316-324   RegressionModel.__init__: the models the constructor
\* can return, one per outcome of the random initializer of the two tables
RegressionModel(max_user_id, max_item_id, V) ==
    {[user_embedding |-> u, item_embedding |-> i] :
        u \in Tables(max_user_id + 1, V), i \in Tables(max_item_id + 1, V)}

\* What an Embedding layer does with an index outside its table is the
\* library's choice, and differs with the device and the compilation of the
\* model: an error (CPU), a row of zeros (GPU), the nearest row (XLA).
OutOfRangeModes == {"error", "zero", "clamp"}

\* lab_3.ipynb:334-335   self.user_embedding(user_inputs): one row per index
Lookup(table, id, mode) ==
    IF id \in DOMAIN table THEN table[id]
    ELSE IF mode = "zero" THEN [k \in DOMAIN table[0] |-> 0]
    ELSE IF id < 0 THEN table[0]
    ELSE table[Max(DOMAIN table)]

Raised(what) == [raised |-> what, value |-> <<>>]

Returned(v) == [raised |-> None, value |-> v]

\* lab_3.ipynb:330-338 and 741   model.predict([users, item_ids]): the dot
\* product of the two looked-up rows for every pair of the batch.  An empty
\* batch raises ValueError in Keras (empty_ok = FALSE); a library that
\* returned an empty array instead is the other outcome.
Predict(m, users, item_ids, mode, empty_ok) ==
    IF Len(users) = 0
    THEN IF empty_ok THEN Returned(<<>>) ELSE Raised("ValueError")
    ELSE IF /\ mode = "error"
            /\ \E k \in DOMAIN users :
                  \/ users[k] \notin DOMAIN m.user_embedding
                  \/ item_ids[k] \notin DOMAIN m.item_embedding
    THEN Raised("OutOfRange")
    ELSE Returned([k \in DOMAIN users |->
                      Dot(Lookup(m.user_embedding, users[k], mode),
                          Lookup(m.item_embedding, item_ids[k], mode))])

\* a fit that holds nothing out (validation_split left out of the call)
SplitAtAll(n) == n

\* validation_split=0.1: Keras keeps the first floor(0.9 * n) samples for
\* training and holds the rest out
SplitAt(n) == (9 * n) \div 10

\* the samples fit trains on, of the samples it is given
TrainingRows(samples) == SubSeq(samples, 1, SplitAt(Len(samples)))

\* the samples fit holds out and only scores at the end of every epoch
ValidationRows(samples) == SubSeq(samples, SplitAt(Len(samples)) + 1, Len(samples))

\* lab_3.ipynb:364   epochs=10, batch_size=64
Epochs == 10

BatchSize == 64

\* the mini-batches of one epoch over n samples
Steps(n) == (n + BatchSize - 1) \div BatchSize

\* lab_3.ipynb:363   the History object fit returns: one loss and one val_loss
\* per epoch.  A loss is represented by the samples it is the mean over: the
\* samples of the epoch's mini-batches for loss, the held-out samples for
\* val_loss.
History(rows, held) ==
    [epoch |-> [e \in 1..Epochs |-> e - 1],
     loss |-> [e \in 1..Epochs |-> Range(rows)],
     val_loss |-> [e \in 1..Epochs |-> Range(held)]]

\* lab_3.ipynb:363-365   model.fit: the models training can end with.  Only
\* the rows of the ids that occur in the training part receive a gradient;
\* every other row keeps the value the initializer gave it.
Fit(m, user_ids, item_ids, V) ==
    {[user_embedding |-> u, item_embedding |-> i] :
        u \in {t \in [DOMAIN m.user_embedding -> V] :
                 \A r \in DOMAIN t : r \notin Range(user_ids) => t[r] = m.user_embedding[r]},
        i \in {t \in [DOMAIN m.item_embedding -> V] :
                 \A r \in DOMAIN t : r \notin Range(item_ids) => t[r] = m.item_embedding[r]}}

(***************************************************************************)
(* Similarity and recommendation queries.                                  *)
(***************************************************************************)
RECURSIVE Gcd(_, _)
Gcd(a, b) == IF b = 0 THEN a ELSE Gcd(b, a % b)

Sign(x) == IF x > 0 THEN 1 ELSE IF x < 0 THEN 0 - 1 ELSE 0

\* A cosine similarity c is kept exactly, as the fraction sign(c) * c^2 in
\* lowest terms: 1.0 is 1/1, 0.0 is 0/1, and the order of two similarities
\* is the order of their fractions.
Fraction(n, d) ==
    LET g == Gcd(IF n < 0 THEN 0 - n ELSE n, d)
    IN  [num |-> n \div g, den |-> d \div g]

SimOne == [num |-> 1, den |-> 1]

SimZero == [num |-> 0, den |-> 1]

\* x <= y for two similarities
SimAtMost(x, y) == x.num * y.den <= y.num * x.den

\* the order of the similarities that occur in sims
SimLeq(sims) == {<<x, y>> \in Range(sims) \X Range(sims) : SimAtMost(x, y)}

\* the order of the ratings that occur in ratings
IntLeq(ratings) == {<<x, y>> \in Range(ratings) \X Range(ratings) : x <= y}

\* a cosine that divides by the norms without the zero guard of the library
CosineSimilarityUnguarded(a, b) ==
    IF Dot(a, a) = 0 \/ Dot(b, b) = 0 THEN [num |-> 0, den |-> 0]
    ELSE Fraction(Sign(Dot(a, b)) * Dot(a, b) * Dot(a, b), Dot(a, a) * Dot(b, b))

\* sklearn.metrics.pairwise.cosine_similarity for two vectors: both are
\* normalized, a vector of norm zero being left as it is (its norm is taken
\* as 1), and the normalized vectors are multiplied
CosineSimilarity(a, b) ==
    IF Dot(a, a) = 0 \/ Dot(b, b) = 0 THEN SimZero
    ELSE Fraction(Sign(Dot(a, b)) * Dot(a, b) * Dot(a, b), Dot(a, a) * Dot(b, b))

\* lab_3.ipynb:515-519   cosine(a, b)
Cosine(a, b) == Returned(CosineSimilarity(a, b))

\* np.argsort(values): every order of the positions 0..n-1 in which the
\* values ascend.  The default sort is not stable, so equal values may come
\* in any order.  Leq is the order of the values, a set of pairs.
ArgSort(values, Leq) ==
    LET n == Len(values)
    IN  {p \in [1..n -> 0..(n - 1)] :
            /\ \A a, b \in 1..n : a # b => p[a] # p[b]
            /\ \A a \in 1..(n - 1) : <<values[p[a] + 1], values[p[a + 1] + 1]>> \in Leq}

\* p[::-1]
Reverse(p) == [k \in 1..Len(p) |-> p[Len(p) + 1 - k]]

\* p[0:n]
FirstN(p, n) == SubSeq(p, 1, IF n < Len(p) THEN n ELSE Len(p))

\* p[-n:], which is the whole of p for n = 0
LastN(p, n) == IF n = 0 \/ n >= Len(p) THEN p ELSE SubSeq(p, Len(p) - n + 1, Len(p))

\* most_similar without the [::-1]: least similar first
MostSimilarAscending(item_id, table, titles, top_n) ==
    IF item_id \notin DOMAIN table THEN {Raised("IndexError")}
    ELSE LET rows == Cardinality(DOMAIN table)
             sims == [k \in 1..rows |-> CosineSimilarity(table[item_id], table[k - 1])]
         IN  {LET idxs == FirstN(p, top_n)
              IN  IF \E k \in DOMAIN idxs : idxs[k] \notin DOMAIN titles
                  THEN Raised("KeyError")
                  ELSE Returned([k \in DOMAIN idxs |->
                          [item_id |-> idxs[k],
                           title |-> titles[idxs[k]].title,
                           similarity |-> sims[idxs[k] + 1]]])
              : p \in ArgSort(sims, SimLeq(sims))}

\* most_similar that leaves the query item out of its candidates
MostSimilarOthersOnly(item_id, table, titles, top_n) ==
    IF item_id \notin DOMAIN table THEN {Raised("IndexError")}
    ELSE LET rows == Cardinality(DOMAIN table)
             sims == [k \in 1..rows |-> CosineSimilarity(table[item_id], table[k - 1])]
         IN  {LET idxs == FirstN(SelectSeq(Reverse(p), LAMBDA x : x # item_id), top_n)
              IN  IF \E k \in DOMAIN idxs : idxs[k] \notin DOMAIN titles
                  THEN Raised("KeyError")
                  ELSE Returned([k \in DOMAIN idxs |->
                          [item_id |-> idxs[k],
                           title |-> titles[idxs[k]].title,
                           similarity |-> sims[idxs[k] + 1]]])
              : p \in ArgSort(sims, SimLeq(sims))}

\* lab_3.ipynb:615-626   most_similar(item_id, item_embeddings, titles, top_n):
\* the outcomes of the call, one per order argsort may give
MostSimilar(item_id, table, titles, top_n) ==
    IF item_id \notin DOMAIN table THEN {Raised("IndexError")}
    ELSE LET rows == Cardinality(DOMAIN table)
             sims == [k \in 1..rows |-> CosineSimilarity(table[item_id], table[k - 1])]
         IN  {LET idxs == FirstN(Reverse(p), top_n)
              IN  IF \E k \in DOMAIN idxs : idxs[k] \notin DOMAIN titles
                  THEN Raised("KeyError")
                  ELSE Returned([k \in DOMAIN idxs |->
                          [item_id |-> idxs[k],
                           title |-> titles[idxs[k]].title,
                           similarity |-> sims[idxs[k] + 1]]])
              : p \in ArgSort(sims, SimLeq(sims))}

\* the candidates without the filter on the items the user has seen
CandidatesUnfiltered(user_id, its, ratings) ==
    SortedSeq(1..(Max({its[k].item_id : k \in DOMAIN its}) - 1))

\* lab_3.ipynb:733-736   the candidate item ids of recommend, in ascending order
Candidates(user_id, its, ratings) ==
    LET seen_movies == {ratings[k].item_id :
                           k \in {j \in DOMAIN ratings : ratings[j].user_id = user_id}}
        last == Max({its[k].item_id : k \in DOMAIN its})
    IN  SelectSeq(SortedSeq(1..(last - 1)), LAMBDA x : x \notin seen_movies)

\* recommend without the [::-1]: lowest prediction first
RecommendAscending(user_id, top_n, its, ratings, idx_items, m, mode, empty_ok) ==
    IF its = <<>> THEN {Raised("ValueError")}
    ELSE LET item_ids == Candidates(user_id, its, ratings)
             user == [k \in DOMAIN item_ids |-> user_id]
             predicted == Predict(m, user, item_ids, mode, empty_ok)
         IN  IF predicted.raised # None THEN {predicted}
             ELSE {LET top_items == LastN(p, top_n)
                   IN  IF \E k \in DOMAIN top_items : top_items[k] \notin DOMAIN idx_items
                       THEN Raised("KeyError")
                       ELSE Returned([k \in DOMAIN top_items |->
                               [title |-> idx_items[top_items[k]].title,
                                rating |-> predicted.value[top_items[k] + 1]]])
                   : p \in ArgSort(predicted.value, IntLeq(predicted.value))}

\* lab_3.ipynb:732-743   recommend(user_id, top_n): the outcomes of the call.
\* top_items holds positions in the array of predictions, and the last line
\* uses each position both as the label to look the title up by and as the
\* position of the rating.
Recommend(user_id, top_n, its, ratings, idx_items, m, mode, empty_ok) ==
    IF its = <<>> THEN {Raised("ValueError")}
    ELSE LET item_ids == Candidates(user_id, its, ratings)
             user == [k \in DOMAIN item_ids |-> user_id]
             predicted == Predict(m, user, item_ids, mode, empty_ok)
         IN  IF predicted.raised # None THEN {predicted}
             ELSE {LET top_items == Reverse(LastN(p, top_n))
                   IN  IF \E k \in DOMAIN top_items : top_items[k] \notin DOMAIN idx_items
                       THEN Raised("KeyError")
                       ELSE Returned([k \in DOMAIN top_items |->
                               [title |-> idx_items[top_items[k]].title,
                                rating |-> predicted.value[top_items[k] + 1]]])
                   : p \in ArgSort(predicted.value, IntLeq(predicted.value))}

(***************************************************************************)
(* The cells of the notebook.                                              *)
(***************************************************************************)
Outcome(op, args, o) == [op |-> op, args |-> args, raised |-> o.raised, value |-> o.value]

NoResult == [op |-> None, args |-> <<>>, raised |-> None, value |-> <<>>]

\* lab_3.ipynb:121
MergeCell ==
    /\ pc = "merge"
    /\ all_ratings' = MergeItemsRatings(items, raw_ratings)
    /\ pc' = "popularity"
    /\ UNCHANGED <<raw_ratings, items, popularity, indexed_items, ratings_train,
                   ratings_test, np_random, model, iterations, history,
                   item_embeddings, result>>

\* lab_3.ipynb:164-165
PopularityCell ==
    /\ pc = "popularity"
    /\ popularity' = GroupBySize(all_ratings)
    /\ items' = MergePopularityItems(popularity', items)
    /\ pc' = "merge_popularity"
    /\ UNCHANGED <<raw_ratings, all_ratings, indexed_items, ratings_train,
                   ratings_test, np_random, model, iterations, history,
                   item_embeddings, result>>

\* lab_3.ipynb:201
MergePopularityCell ==
    /\ pc = "merge_popularity"
    /\ all_ratings' = MergePopularityRatings(popularity, all_ratings)
    /\ pc' = "set_index"
    /\ UNCHANGED <<raw_ratings, items, popularity, indexed_items, ratings_train,
                   ratings_test, np_random, model, iterations, history,
                   item_embeddings, result>>

\* lab_3.ipynb:213
SetIndexCell ==
    /\ pc = "set_index"
    /\ indexed_items' = SetIndex(items)
    /\ pc' = "split"
    /\ UNCHANGED <<raw_ratings, items, all_ratings, popularity, ratings_train,
                   ratings_test, np_random, model, iterations, history,
                   item_embeddings, result>>

\* lab_3.ipynb:264-273, the first execution of the cell
SplitCell ==
    /\ pc = "split"
    /\ IF SplitFails(Len(all_ratings))
       THEN /\ pc' = "failed"
            /\ result' = Outcome("train_test_split", <<>>, Raised("ValueError"))
            /\ UNCHANGED <<ratings_train, ratings_test, np_random>>
       ELSE LET sp == TrainTestSplit(Len(all_ratings), 0, np_random)
            IN  /\ ratings_train' = sp.train
                /\ ratings_test' = sp.test
                /\ np_random' = sp.global
                /\ pc' = "model"
                /\ UNCHANGED result
    /\ UNCHANGED <<raw_ratings, items, all_ratings, popularity, indexed_items,
                   model, iterations, history, item_embeddings>>

\* lab_3.ipynb:264-273, the cell executed again later in the session
SplitCellAgain ==
    /\ pc = "query"
    /\ LET sp == TrainTestSplit(Len(all_ratings), 0, np_random)
       IN  /\ ratings_train' = sp.train
           /\ ratings_test' = sp.test
           /\ np_random' = sp.global
    /\ result' = Outcome("train_test_split", <<>>, Returned(<<>>))
    /\ pc' = "shown"
    /\ UNCHANGED <<raw_ratings, items, all_ratings, popularity, indexed_items,
                   model, iterations, history, item_embeddings>>

\* the tables sized from the maxima of the training rows instead of all_ratings
BuildModelFromTrain(then) ==
    /\ model' \in RegressionModel(
                    Max({all_ratings[ratings_train[k]].user_id : k \in DOMAIN ratings_train}),
                    Max({all_ratings[ratings_train[k]].item_id : k \in DOMAIN ratings_train}),
                    Vec)
    /\ iterations' = 0
    /\ pc' = then
    /\ UNCHANGED <<raw_ratings, items, all_ratings, popularity, indexed_items,
                   ratings_train, ratings_test, np_random, history,
                   item_embeddings, result>>

\* lab_3.ipynb:341-342 and 803-804   model = RegressionModel(...) and
\* model.compile(...): the global model is bound to a new model with a new
\* optimizer, which has applied no update
BuildModel(then) ==
    /\ model' \in RegressionModel(Max(Column(all_ratings, "user_id")),
                                  Max(Column(all_ratings, "item_id")), Vec)
    /\ iterations' = 0
    /\ pc' = then
    /\ UNCHANGED <<raw_ratings, items, all_ratings, popularity, indexed_items,
                   ratings_train, ratings_test, np_random, history,
                   item_embeddings, result>>

\* a fit cell that trains nothing (epochs=0): the queries read the initializer's tables
RunFitSkipped(then) ==
    /\ pc' = then
    /\ history' = History(<<>>, <<>>)
    /\ UNCHANGED <<raw_ratings, items, all_ratings, popularity, indexed_items,
                   ratings_train, ratings_test, np_random, model, iterations,
                   item_embeddings, result>>

\* lab_3.ipynb:363-365 and 815-817   history = model.fit(...)
RunFit(then) ==
    /\ LET n == Len(ratings_train)
           rows == TrainingRows(ratings_train)
           held == ValidationRows(ratings_train)
           user_id_train == [k \in DOMAIN rows |-> all_ratings[rows[k]].user_id]
           item_id_train == [k \in DOMAIN rows |-> all_ratings[rows[k]].item_id]
       IN  IF SplitAt(n) = 0
           THEN /\ pc' = "failed"
                /\ result' = Outcome("fit", <<>>, Raised("ValueError"))
                /\ UNCHANGED <<model, iterations, history>>
           ELSE /\ model' \in Fit(model, user_id_train, item_id_train, Vec)
                /\ iterations' = iterations + Epochs * Steps(Len(rows))
                /\ history' = History(rows, held)
                /\ pc' = then
                /\ UNCHANGED result
    /\ UNCHANGED <<raw_ratings, items, all_ratings, popularity, indexed_items,
                   ratings_train, ratings_test, np_random, item_embeddings>>

\* lab_3.ipynb:341-342
ModelCell == pc = "model" /\ BuildModel("fit")

\* lab_3.ipynb:363-365
FitCell == pc = "fit" /\ RunFit("weights")

\* lab_3.ipynb:777-804, the cell after the query cells: RegressionModel is
\* defined again and the global model is bound to a new instance
ModelCellAgain == pc = "query" /\ BuildModel("fit_again")

\* lab_3.ipynb:815-817, the last cell of the notebook
FitCellAgain == pc = "fit_again" /\ RunFit("done")

\* lab_3.ipynb:452-463
GetWeightsCell ==
    /\ pc = "weights"
    /\ item_embeddings' = model.item_embedding
    /\ pc' = "query"
    /\ UNCHANGED <<raw_ratings, items, all_ratings, popularity, indexed_items,
                   ratings_train, ratings_test, np_random, model, iterations, history,
                   result>>

Unqueried == <<raw_ratings, items, all_ratings, popularity, indexed_items,
               ratings_train, ratings_test, np_random, model, iterations, history,
               item_embeddings>>

\* lab_3.ipynb:330-338   model.predict([[user_id], [item_id]])
PredictCall ==
    /\ pc = "query"
    /\ \E user_id \in 0..Cardinality(DOMAIN model.user_embedding),
          item_id \in 0..Cardinality(DOMAIN model.item_embedding),
          mode \in OutOfRangeModes :
          result' = Outcome("predict", <<user_id, item_id>>,
                            Predict(model, <<user_id>>, <<item_id>>, mode, FALSE))
    /\ pc' = "shown"
    /\ UNCHANGED Unqueried

\* lab_3.ipynb:531-532   cosine(item_embeddings[item_a], item_embeddings[item_b])
CosineCall ==
    /\ pc = "query"
    /\ \E item_a, item_b \in DOMAIN item_embeddings :
          result' = Outcome("cosine", <<item_a, item_b>>,
                            Cosine(item_embeddings[item_a], item_embeddings[item_b]))
    /\ pc' = "shown"
    /\ UNCHANGED Unqueried

\* lab_3.ipynb:629, 639   most_similar(item_id, item_embeddings, indexed_items["title"], top_n)
MostSimilarCall ==
    /\ pc = "query"
    /\ \E item_id \in 0..Cardinality(DOMAIN item_embeddings),
          top_n \in 0..(Cardinality(DOMAIN item_embeddings) + 1) :
          \E o \in MostSimilar(item_id, item_embeddings, indexed_items, top_n) :
              result' = Outcome("most_similar", <<item_id, top_n>>, o)
    /\ pc' = "shown"
    /\ UNCHANGED Unqueried

\* lab_3.ipynb:752   recommend(user_id, top_n)
RecommendCall ==
    /\ pc = "query"
    /\ \E user_id \in 1..(MaxUser + 1), top_n \in 0..MaxTopN,
          mode \in OutOfRangeModes, empty_ok \in BOOLEAN :
          \E o \in Recommend(user_id, top_n, items, all_ratings, indexed_items,
                             model, mode, empty_ok) :
              result' = Outcome("recommend", <<user_id, top_n>>, o)
    /\ pc' = "shown"
    /\ UNCHANGED Unqueried

\* the value a query cell returned is displayed and dropped; the session goes on
Display ==
    /\ pc = "shown"
    /\ pc' = "query"
    /\ result' = NoResult
    /\ UNCHANGED Unqueried

(***************************************************************************)
(* The pipeline: the notebook executed from the top on bounded input files.*)
(***************************************************************************)
RatingRows(users, item_ids) == [user_id : users, item_id : item_ids]

ItemRows(S) == LET ids == SortedSeq(S) IN [k \in DOMAIN ids |-> [item_id |-> ids[k]]]

Init ==
    /\ pc = "merge"
    /\ raw_ratings \in SeqsUpTo(RatingRows(UserIds, 1..PipeItems), MaxRatings)
    /\ items \in {ItemRows(S) : S \in SUBSET (1..PipeItems)}
    /\ all_ratings = None
    /\ popularity = None
    /\ indexed_items = None
    /\ ratings_train = None
    /\ ratings_test = None
    /\ np_random \in {1, 2}
    /\ model = NoModel
    /\ iterations = 0
    /\ history = None
    /\ item_embeddings = None
    /\ result = NoResult

Next ==
    \/ MergeCell
    \/ PopularityCell
    \/ MergePopularityCell
    \/ SetIndexCell
    \/ SplitCell
    \/ SplitCellAgain
    \/ ModelCell
    \/ FitCell
    \/ GetWeightsCell
    \/ ModelCellAgain
    \/ FitCellAgain
    \/ PredictCall
    \/ CosineCall
    \/ MostSimilarCall
    \/ RecommendCall
    \/ Display

Spec == Init /\ [][Next]_vars

(***************************************************************************)
(* recommend on its own: the session after training, for every bounded     *)
(* rating table and every model training can have left.  The globals are   *)
(* what the cells above compute from the rating rows.                      *)
(***************************************************************************)
RECURSIVE SeqOfSet(_)
SeqOfSet(S) ==
    IF S = {} THEN <<>>
    ELSE LET x == CHOOSE y \in S : TRUE IN <<x>> \o SeqOfSet(S \ {x})

InitRec ==
    /\ pc = "query"
    /\ \E R \in {S \in SUBSET RatingRows(UserIds, ItemIds) :
                    Cardinality(S) \in 1..MaxRatings} :
          /\ raw_ratings = SeqOfSet(R)
          /\ LET joined == MergeItemsRatings(ItemRows(ItemIds), raw_ratings)
             IN  /\ popularity = GroupBySize(joined)
                 /\ items = MergePopularityItems(popularity, ItemRows(ItemIds))
                 /\ all_ratings = MergePopularityRatings(popularity, joined)
    /\ indexed_items = SetIndex(items)
    /\ ratings_train = None
    /\ ratings_test = None
    /\ np_random = 1
    /\ model \in RegressionModel(Max(Column(all_ratings, "user_id")),
                                 Max(Column(all_ratings, "item_id")), Vec)
    /\ iterations = Epochs    \* a trained model: at least one update per epoch
    /\ history = None         \* recommend reads neither the split nor the history
    /\ item_embeddings = model.item_embedding
    /\ result = NoResult

NextRec ==
    \/ RecommendCall
    \/ Display

SpecRec == InitRec /\ [][NextRec]_vars

(***************************************************************************)
(* cosine and most_similar on their own: every bounded embedding table,    *)
(* with titles for some of its rows (row 0 never has one: item ids start   *)
(* at 1).                                                                  *)
(***************************************************************************)
SimVals == {0 - 1, 0, 1, 2}
SimVec == [1..SimDim -> SimVals]

InitSim ==
    /\ pc = "query"
    /\ raw_ratings = None
    /\ all_ratings = None
    /\ popularity = None
    /\ \E S \in SUBSET (1..(SimRows - 2)) :
          items = [k \in 1..(Cardinality(S) + 1) |->
                      [item_id |-> SortedSeq(S \cup {SimRows - 1})[k], popularity |-> 1]]
    /\ indexed_items = SetIndex(items)
    /\ ratings_train = None
    /\ ratings_test = None
    /\ np_random = 1
    /\ model = NoModel
    /\ iterations = 0
    /\ history = None
    /\ item_embeddings \in Tables(SimRows, SimVec)
    /\ result = NoResult

NextSim ==
    \/ CosineCall
    \/ MostSimilarCall
    \/ Display

SpecSim == InitSim /\ [][NextSim]_vars

(***************************************************************************)
(* Properties.  They are stated on the result of the last query and on the *)
(* globals, with definitions of their own for what the claims speak of.    *)
(***************************************************************************)
RecommendReturned == result.op = "recommend" /\ result.raised = None

\* the item ids of the rating rows of all_ratings with this user_id
RatedBy(user_id) ==
    {all_ratings[k].item_id : k \in {j \in DOMAIN all_ratings : all_ratings[j].user_id = user_id}}

\* the candidate range of recommend: [1, max item_id of items)
CandidateRange == 1..(Max({items[k].item_id : k \in DOMAIN items}) - 1)

Unseen(user_id) == SortedSeq(CandidateRange \ RatedBy(user_id))

\* the values model.predict can give for one (user_id, item_id) pair
Predictions(user_id, item_id) ==
    {o.value[1] : o \in {q \in {Predict(model, <<user_id>>, <<item_id>>, mode, FALSE) :
                                   mode \in OutOfRangeModes} : q.raised = None}}

\* C1: no entry returned by recommend(user_id, top_n) names (by the title
\* looked up for it) an item the user has a rating row for in all_ratings.
C1_NoSeenItemRecommended ==
    (RecommendReturned /\ result.args[1] \in DOMAIN model.user_embedding) =>
        \A k \in DOMAIN result.value : result.value[k].title \notin RatedBy(result.args[1])

\* C10: every entry returned by recommend names an item of [1, max_item_id)
\* that the user has not rated, and reports predict(user_id, item_id) for that
\* same item.
C10_TitleAndScoreOfSameCandidate ==
    (RecommendReturned /\ result.args[1] \in DOMAIN model.user_embedding) =>
        \A k \in DOMAIN result.value :
            /\ result.value[k].title \in CandidateRange \ RatedBy(result.args[1])
            /\ result.value[k].rating \in Predictions(result.args[1], result.value[k].title)

\* the predictions model.predict can return for the unseen candidates of a
\* user, one sequence per behaviour of the lookup
CandidatePredictions(user_id) ==
    {o.value : o \in {q \in {Predict(model, [k \in DOMAIN Unseen(user_id) |-> user_id],
                                     Unseen(user_id), mode, TRUE) :
                                 mode \in OutOfRangeModes} : q.raised = None}}

\* position in 1..n of the candidates ranked by prediction descending, equal
\* predictions by item_id ascending
RankedAscendingTies(cands, preds) ==
    CHOOSE p \in [1..Len(cands) -> 1..Len(cands)] :
        /\ \A a, b \in 1..Len(cands) : a # b => p[a] # p[b]
        /\ \A a \in 1..(Len(cands) - 1) :
              \/ preds[p[a]] > preds[p[a + 1]]
              \/ preds[p[a]] = preds[p[a + 1]] /\ cands[p[a]] < cands[p[a + 1]]

Smaller(a, b) == IF a < b THEN a ELSE b

\* C5 as claimed: the entries returned by recommend(user_id, top_n) are the
\* first top_n unseen candidates in the order of their predicted rating,
\* highest first, candidates of equal prediction in ascending item_id order.
\* (The candidate of an entry is the one at the position the entry was taken
\* from; top_n >= 1 and a user_id inside the table.)
C5_TopNDescendingTiesAscending ==
    (/\ RecommendReturned
     /\ result.args[2] >= 1
     /\ result.args[1] \in DOMAIN model.user_embedding) =>
        LET cands == Unseen(result.args[1])
        IN  \A preds \in CandidatePredictions(result.args[1]) :
                LET ranked == RankedAscendingTies(cands, preds)
                IN  /\ Len(result.value) = Smaller(result.args[2], Len(cands))
                    /\ \A k \in DOMAIN result.value :
                          /\ result.value[k].title + 1 = ranked[k]
                          /\ result.value[k].rating = preds[ranked[k]]

\* C5 as amended: when recommend returns, it returns min(top_n, number of
\* unseen candidates) entries for top_n >= 1 and one entry per candidate for
\* top_n = 0; the entries are taken from distinct candidates, each reports the
\* prediction of the candidate it was taken from, the reported predictions
\* descend, and no candidate left out has a higher prediction than a reported
\* one.  Nothing orders candidates of equal prediction.
C5_TopScoresDescending ==
    RecommendReturned =>
        LET cands == Unseen(result.args[1])
            v == result.value
        IN  \E preds \in CandidatePredictions(result.args[1]) :
                /\ Len(v) = IF result.args[2] = 0 THEN Len(cands)
                            ELSE Smaller(result.args[2], Len(cands))
                /\ \A k \in DOMAIN v : v[k].title + 1 \in DOMAIN cands
                /\ \A j, k \in DOMAIN v : j # k => v[j].title # v[k].title
                /\ \A k \in DOMAIN v : v[k].rating = preds[v[k].title + 1]
                /\ \A k \in 1..(Len(v) - 1) : v[k].rating >= v[k + 1].rating
                /\ \A c \in DOMAIN cands :
                      (\A k \in DOMAIN v : v[k].title + 1 # c) =>
                          \A k \in DOMAIN v : preds[c] <= v[k].rating

\* two candidates of equal prediction returned with the higher item_id first
C5_Witness ==
    /\ RecommendReturned
    /\ result.args[2] >= 1
    /\ result.args[1] \in DOMAIN model.user_embedding
    /\ Len(result.value) = 2
    /\ result.value[1].rating = result.value[2].rating
    /\ result.value[1].title > result.value[2].title

\* C8 as claimed: when the user has rated every item_id of the candidate
\* range, recommend(user_id, top_n=1) returns an empty list.
C8_AllSeenReturnsEmptyList ==
    (/\ result.op = "recommend"
     /\ result.args[2] = 1
     /\ CandidateRange \subseteq RatedBy(result.args[1])) =>
        result.raised = None /\ result.value = <<>>

\* C8 as amended: when the user has rated every item_id of the candidate
\* range, recommend returns no entry: the call either fails with the
\* ValueError model.predict raises for an empty batch or returns an empty list.
C8_AllSeenNoEntry ==
    (/\ result.op = "recommend"
     /\ CandidateRange \subseteq RatedBy(result.args[1])) =>
        result.value = <<>> /\ result.raised \in {None, "ValueError"}

\* a user who rated the whole, non-empty candidate range asked for one item
C8_Witness ==
    /\ result.op = "recommend"
    /\ result.args[2] = 1
    /\ CandidateRange # {}
    /\ CandidateRange \subseteq RatedBy(result.args[1])

SplitDone == ratings_train # None

\* the index labels in a sequence, each once
Labels(seq) == {seq[k] : k \in DOMAIN seq}

NoRepeat(seq) == Cardinality(Labels(seq)) = Len(seq)

\* C3: the train/test split is a partition of the rows of all_ratings
\* (no row in both, every row in one of them), and executing the split again
\* on the same rows with random_state=0 and test_size=0.2 gives the same
\* train and test sets.
C3_SplitPartitionReproducible ==
    /\ [](SplitDone =>
            /\ Labels(ratings_train) \cap Labels(ratings_test) = {}
            /\ Labels(ratings_train) \cup Labels(ratings_test) = DOMAIN all_ratings
            /\ NoRepeat(ratings_train) /\ NoRepeat(ratings_test))
    /\ [][SplitDone => ratings_train' = ratings_train /\ ratings_test' = ratings_test]_vars

\* the split cell executed a second time on three or more rows
C3_Witness ==
    /\ result.op = "train_test_split"
    /\ result.raised = None
    /\ Len(ratings_train) >= 2
    /\ Len(ratings_test) >= 1

\* how many rows of a frame are the rating (user_id, item_id)
Occurrences(frame, row) ==
    Cardinality({k \in DOMAIN frame :
                    frame[k].user_id = row.user_id /\ frame[k].item_id = row.item_id})

ItemIdsOf(its) == {its[k].item_id : k \in DOMAIN its}

\* C4: the join of items and raw_ratings is an inner join on item_id: a
\* rating row whose item_id is not in items is not in all_ratings, a rating
\* row whose item_id is in items is there exactly once, and all_ratings has
\* no more rows than raw_ratings.
C4_InnerJoin ==
    pc # "merge" =>
        /\ \A row \in RatingRows(UserIds, 1..PipeItems) :
              Occurrences(all_ratings, row) =
                  IF row.item_id \in ItemIdsOf(items)
                  THEN Occurrences(raw_ratings, row) ELSE 0
        /\ Len(all_ratings) <= Len(raw_ratings)

\* the join has just run on ratings of which one has its item and one has not
C4_Witness ==
    /\ pc = "popularity"
    /\ \E k \in DOMAIN raw_ratings : raw_ratings[k].item_id \notin ItemIdsOf(items)
    /\ \E k \in DOMAIN raw_ratings : raw_ratings[k].item_id \in ItemIdsOf(items)

ModelBuilt == model # NoModel

UserTableRows == DOMAIN model.user_embedding

ItemTableRows == DOMAIN model.item_embedding

MaxUserId == Max({all_ratings[k].user_id : k \in DOMAIN all_ratings})

MaxItemId == Max({all_ratings[k].item_id : k \in DOMAIN all_ratings})

TablesSized ==
    ModelBuilt => UserTableRows = 0..MaxUserId /\ ItemTableRows = 0..MaxItemId

OutOfRangePredict ==
    /\ result.op = "predict"
    /\ result.args[1] \notin UserTableRows \/ result.args[2] \notin ItemTableRows

ZeroRow == [k \in 1..EmbDim |-> 0]

LastRow(table) == table[Max(DOMAIN table)]

IsZero(v) == \A k \in DOMAIN v : v[k] = 0

CosineOnZero ==
    /\ result.op = "cosine"
    /\ \/ IsZero(item_embeddings[result.args[1]])
       \/ IsZero(item_embeddings[result.args[2]])

\* C7 as claimed: cosine(a, b) fails with an InvalidInput error whenever a
\* or b is the zero vector, and returns no number then.
C7_ZeroVectorFails ==
    CosineOnZero => result.raised = "InvalidInput"

\* C7 as amended: cosine(a, b) raises nothing when a or b is the zero
\* vector: it returns the similarity 0.0.
C7_ZeroVectorGivesZero ==
    CosineOnZero => result.raised = None /\ result.value = SimZero

\* cosine of a zero row and a non-zero row
C7_Witness ==
    /\ result.op = "cosine"
    /\ IsZero(item_embeddings[result.args[1]])
    /\ ~IsZero(item_embeddings[result.args[2]])

\* b is a positive multiple of a (both non-zero)
SameDirection(a, b) ==
    /\ Dot(a, b) > 0
    /\ \A k, l \in DOMAIN a : a[k] * b[l] = a[l] * b[k]

MostSimilarOf(i) == result.op = "most_similar" /\ result.args[1] = i

\* C2 as claimed: for every row i of item_embeddings and every top_n >= 1
\* the first entry of most_similar(i, ...) is item i with similarity 1.0,
\* whatever the table holds.  (Stated for the calls that return and for the
\* rows that are not the zero vector.)
C2_SelfFirstWithOne ==
    \A i \in DOMAIN item_embeddings :
        (/\ MostSimilarOf(i)
         /\ result.args[2] >= 1
         /\ result.raised = None
         /\ ~IsZero(item_embeddings[i])) =>
            /\ result.value[1].item_id = i
            /\ result.value[1].similarity = SimOne

\* C2 as amended: for every row i of item_embeddings that is not the zero
\* vector and that no other row is a positive multiple of, and every
\* top_n >= 1: when most_similar(i, ...) returns, its first entry is item i
\* with similarity 1.0.  (It raises KeyError instead when a row it selects has
\* no title; the similarities of a zero row are all 0.0; of two rows of the
\* same direction either may come first.)
C2_SelfFirstWhenAlone ==
    \A i \in DOMAIN item_embeddings :
        (/\ MostSimilarOf(i)
         /\ result.args[2] >= 1
         /\ result.raised = None
         /\ ~IsZero(item_embeddings[i])
         /\ \A j \in DOMAIN item_embeddings \ {i} :
               ~SameDirection(item_embeddings[i], item_embeddings[j])) =>
            /\ result.value[1].item_id = i
            /\ result.value[1].similarity = SimOne

\* most_similar returned two entries for a non-zero row that no row repeats
C2_Witness ==
    \E i \in DOMAIN item_embeddings :
        /\ MostSimilarOf(i)
        /\ result.raised = None
        /\ Len(result.value) >= 2
        /\ ~IsZero(item_embeddings[i])
        /\ \A j \in DOMAIN item_embeddings \ {i} :
              ~SameDirection(item_embeddings[i], item_embeddings[j])

Descending(v) == \A k \in 1..(Len(v) - 1) : SimAtMost(v[k + 1].similarity, v[k].similarity)

\* C9 as claimed: most_similar(item_id, item_embeddings, titles, top_n)
\* returns exactly top_n entries, ordered by similarity to the target row
\* descending, entries of equal similarity in ascending item_id order, the
\* target item being one of the candidates.  (Stated for the calls that
\* return.)
C9_ExactlyTopNTiesAscending ==
    \A i \in DOMAIN item_embeddings :
        (MostSimilarOf(i) /\ result.raised = None) =>
            /\ Len(result.value) = result.args[2]
            /\ Descending(result.value)
            /\ \A k \in 1..(Len(result.value) - 1) :
                  result.value[k].similarity = result.value[k + 1].similarity =>
                      result.value[k].item_id < result.value[k + 1].item_id

\* C9 as amended: most_similar either raises KeyError, when a row it selects
\* has no title, or returns min(top_n, number of rows) entries: distinct rows
\* of the table (the target row is a candidate like any other), each with its
\* cosine similarity to the target row, ordered by similarity descending, no
\* row left out being more similar than a row returned.  Nothing orders
\* entries of equal similarity.
C9_TopNDescending ==
    \A i \in DOMAIN item_embeddings :
        MostSimilarOf(i) =>
            LET v == result.value
                sim(j) == CosineSimilarity(item_embeddings[i], item_embeddings[j])
            IN  \/ /\ result.raised = "KeyError"
                   /\ \E j \in DOMAIN item_embeddings : j \notin DOMAIN indexed_items
                \/ /\ result.raised = None
                   /\ Len(v) = Smaller(result.args[2], Cardinality(DOMAIN item_embeddings))
                   /\ \A k \in DOMAIN v :
                         /\ v[k].item_id \in DOMAIN item_embeddings
                         /\ v[k].title = v[k].item_id
                         /\ v[k].similarity = sim(v[k].item_id)
                   /\ \A j, k \in DOMAIN v : j # k => v[j].item_id # v[k].item_id
                   /\ Descending(v)
                   /\ \A j \in DOMAIN item_embeddings :
                         (\A k \in DOMAIN v : v[k].item_id # j) =>
                             \A k \in DOMAIN v : SimAtMost(sim(j), v[k].similarity)

\* two entries of equal similarity returned with the higher item_id first
C9_Witness ==
    /\ result.op = "most_similar"
    /\ result.raised = None
    /\ Len(result.value) = 2
    /\ result.value[1].similarity = result.value[2].similarity
    /\ result.value[1].item_id > result.value[2].item_id

\* the model has been trained: its optimizer has applied at least one update
Trained == iterations > 0

\* a step that reads the embedding tables: the get_weights snapshot, a
\* prediction, a recommendation
ReadStep ==
    \/ pc = "weights" /\ pc' = "query"
    \/ pc = "query" /\ pc' = "shown" /\ result'.op \in {"predict", "recommend"}

\* a query cell has run: the tables have been read at least once
Queried == pc \in {"query", "shown", "fit_again", "done"}

\* a step that binds model to other tables or trains it
ModelStep == model' # model \/ iterations' # iterations

\* C11 as claimed: every read of the embedding tables happens on a trained
\* model, the tables of a constructed model are written only by training,
\* and once a query has read the tables no later step re-initializes or
\* retrains the model.
C11_TrainedThenReadOnly ==
    /\ [][ReadStep => Trained]_vars
    /\ [][(ModelBuilt /\ model' # model) => iterations' > iterations]_vars
    /\ [][Queried => (~ModelStep)]_vars

\* C11 as amended: every read of the embedding tables happens on a trained
\* model, and while the query cells run the item_embeddings snapshot is the
\* item table of that model.  The tables are written by training and by the
\* construction of a model only.  After the query cells the notebook's last
\* two cells bind model to a new RegressionModel (no update applied) and
\* train it; no step before them changes the model the queries read, and no
\* read follows them.
C11_ReadsOnTrainedModel ==
    /\ [][ReadStep => Trained]_vars
    /\ [](pc \in {"query", "shown"} =>
            Trained /\ item_embeddings = model.item_embedding)
    /\ [][model' # model => iterations' > iterations \/ iterations' = 0]_vars
    /\ [][(Queried /\ ModelStep) =>
            \/ pc = "query" /\ pc' = "fit_again" /\ iterations' = 0
            \/ pc = "fit_again" /\ pc' = "done" /\ iterations' > iterations]_vars
    /\ [][(pc \in {"fit_again", "done"}) => (~ReadStep)]_vars

\* the last cell has retrained a new model after the queries, and the
\* snapshot the similarity queries used is not its item table
C11_Witness ==
    /\ pc = "done"
    /\ Trained
    /\ item_embeddings # model.item_embedding

\* the rating rows of raw_ratings with item_id i: for an item of items, the
\* rows of the joined rating set with that item_id
JoinedCount(i) == Cardinality({k \in DOMAIN raw_ratings : raw_ratings[k].item_id = i})

\* C12: once the popularity cells have run, popularity has exactly one row
\* per item_id of the joined rating set, and the popularity of an item, in
\* popularity, in items and in every all_ratings row of that item, is the
\* number of joined rating rows with that item_id; so no popularity is less
\* than 1 and an item without ratings has no entry.
C12_PopularityCountsRatings ==
    /\ pc \notin {"merge", "popularity"} =>
          /\ \A j, k \in DOMAIN popularity :
                j # k => popularity[j].item_id # popularity[k].item_id
          /\ {popularity[k].item_id : k \in DOMAIN popularity}
                = {all_ratings[k].item_id : k \in DOMAIN all_ratings}
          /\ \A k \in DOMAIN popularity :
                /\ popularity[k].popularity = JoinedCount(popularity[k].item_id)
                /\ popularity[k].popularity >= 1
          /\ \A k \in DOMAIN items :
                /\ items[k].popularity = JoinedCount(items[k].item_id)
                /\ items[k].popularity >= 1
    /\ pc \notin {"merge", "popularity", "merge_popularity"} =>
          \A k \in DOMAIN all_ratings :
              /\ all_ratings[k].popularity = JoinedCount(all_ratings[k].item_id)
              /\ all_ratings[k].popularity >= 1

\* enrichment has run on ratings where one item has two ratings and another
\* item of the catalogue has no entry
C12_Witness ==
    /\ pc = "set_index"
    /\ \E k \in DOMAIN all_ratings : all_ratings[k].popularity = 2
    /\ \E i \in ItemIdsOf(ItemRows(1..PipeItems)) : i \notin ItemIdsOf(popularity)

\* a step that is a completed call of model.fit
FitStep == pc \in {"fit", "fit_again"} /\ pc' \in {"weights", "done"}

\* the held-out samples of a fit on ratings_train: the last tenth, rounded up
HeldOut ==
    LET n == Len(ratings_train)
    IN  {ratings_train[k] : k \in ((9 * n) \div 10 + 1)..n}

\* the samples a fit on ratings_train may put into a mini-batch
Batched ==
    LET n == Len(ratings_train)
    IN  {ratings_train[k] : k \in 1..((9 * n) \div 10)}

SplitRows == Range(ratings_train) \cup Range(ratings_test)

\* the candidate item_ids recommend builds for a user: range(1, max item_id
\* of items) without the items the user rated
CandidateIds(user_id) ==
    {i \in 1..(Max(ItemIdsOf(items)) - 1) :
        \A k \in DOMAIN all_ratings :
            all_ratings[k].user_id = user_id => all_ratings[k].item_id # i}

\* C14: once the model is constructed, every user_id and item_id of a row
\* of ratings_train or ratings_test, and every candidate item_id recommend
\* builds for any user, is a row of the corresponding embedding table.
C14_PipelineIdsInsideTables ==
    ModelBuilt =>
        /\ \A r \in SplitRows :
              /\ all_ratings[r].user_id \in DOMAIN model.user_embedding
              /\ all_ratings[r].item_id \in DOMAIN model.item_embedding
        /\ \A user_id \in 1..(MaxUser + 1) :
              CandidateIds(user_id) \subseteq DOMAIN model.item_embedding

\* the model is constructed, only a test row has the highest user_id and
\* the highest item_id, and recommend has a candidate to predict for
C14_Witness ==
    /\ ModelBuilt
    /\ \E r \in Range(ratings_test) :
          /\ all_ratings[r].user_id = MaxUserId
          /\ all_ratings[r].item_id = MaxItemId
    /\ \A r \in Range(ratings_train) :
          /\ all_ratings[r].user_id < MaxUserId
          /\ all_ratings[r].item_id < MaxItemId
    /\ \E user_id \in UserIds : CandidateIds(user_id) # {}

\* C15: for a user_id inside the user table with at least one unseen
\* candidate, recommend(user_id, top_n) raises nothing and returns
\* min(top_n, number of unseen candidates) entries.  (Stated for top_n >= 1.)
C15_RecommendCompletes ==
    (/\ result.op = "recommend"
     /\ result.args[2] >= 1
     /\ result.args[1] \in DOMAIN model.user_embedding
     /\ Unseen(result.args[1]) # <<>>) =>
        /\ result.raised = None
        /\ Len(result.value) = Smaller(result.args[2], Len(Unseen(result.args[1])))

====
